---- MODULE Spec2Model ----
\* Model of the 115 command-line front end (src/main.go): one invocation of
\* main with an action and a path, the backend calls it makes, and the single
\* JSON response it writes.  Go strings are sequences of one-character strings.
EXTENDS Integers, Sequences, FiniteSets, TLC

\* ---------------------------------------------------------------- bounds
MaxPathLen == 5
MaxFiles == 2
MaxBlocks == 3

\* ------------------------------------------------------------ Go strings
StrSource == <<"S","o","u","r","c","e">>
StrUnknown == <<"U","n","k","n","o","w","n">>
StrHttp == <<"h","t","t","p">>
StrEXTM3U == <<"#","E","X","T","M","3","U">>
StrStreamInf == <<"#","E","X","T","-","X","-","S","T","R","E","A","M","-","I","N","F">>
StrResolution == <<"R","E","S","O","L","U","T","I","O","N","=">>
StrP == <<"p">>
StrSlash == <<"/">>
StrRootCid == <<"0">>

Digits == {"0","1","2","3","4","5","6","7","8","9"}
Spaces == {" ", "\t", "\n", "\r"}

\* strings.HasPrefix
HasPrefix(s, p) == Len(s) >= Len(p) /\ SubSeq(s, 1, Len(p)) = p

\* strings.TrimSuffix
TrimSuffix(s, suf) ==
    IF Len(s) >= Len(suf) /\ SubSeq(s, Len(s) - Len(suf) + 1, Len(s)) = suf
    THEN SubSeq(s, 1, Len(s) - Len(suf))
    ELSE s

\* strings.LastIndex(s, c) for a one-character c: 0-based index, -1 if absent
LastIndex(s, c) ==
    IF \E i \in 1..Len(s) : s[i] = c
    THEN (CHOOSE i \in 1..Len(s) : s[i] = c /\ \A j \in (i+1)..Len(s) : s[j] # c) - 1
    ELSE -1

\* strings.TrimSpace
TrimSpace(s) ==
    IF \A i \in 1..Len(s) : s[i] \in Spaces THEN <<>>
    ELSE LET a == CHOOSE i \in 1..Len(s) :
                     s[i] \notin Spaces /\ \A j \in 1..(i-1) : s[j] \in Spaces
             b == CHOOSE i \in 1..Len(s) :
                     s[i] \notin Spaces /\ \A j \in (i+1)..Len(s) : s[j] \in Spaces
         IN SubSeq(s, a, b)

\* strings.Split(s, sep) for a one-character sep
RECURSIVE Split(_, _)
Split(s, sep) ==
    IF \A i \in 1..Len(s) : s[i] # sep THEN <<s>>
    ELSE LET k == CHOOSE i \in 1..Len(s) :
                     s[i] = sep /\ \A j \in 1..(i-1) : s[j] # sep
         IN <<SubSeq(s, 1, k - 1)>> \o Split(SubSeq(s, k + 1, Len(s)), sep)

\* strings.ToLower on the letters the model's names use
LowerChar(c) == IF c = "M" THEN "m" ELSE IF c = "A" THEN "a" ELSE c
ToLower(s) == [i \in 1..Len(s) |-> LowerChar(s[i])]

\* length of the maximal run of ASCII digits of s starting at position p
DigitRun(s, p) ==
    IF p > Len(s) \/ s[p] \notin Digits THEN 0
    ELSE LET e == CHOOSE i \in p..Len(s) :
                     /\ \A j \in p..i : s[j] \in Digits
                     /\ (i = Len(s) \/ s[i+1] \notin Digits)
         IN e - p + 1

\* whether RESOLUTION=\d+x(\d+) matches s starting exactly at position p
ResolutionAt(s, p) ==
    LET d1 == DigitRun(s, p + Len(StrResolution))
        x  == p + Len(StrResolution) + d1
    IN /\ p + Len(StrResolution) - 1 <= Len(s)
       /\ SubSeq(s, p, p + Len(StrResolution) - 1) = StrResolution
       /\ d1 >= 1
       /\ x <= Len(s)
       /\ s[x] = "x"
       /\ DigitRun(s, x + 1) >= 1

\* regexp.FindStringSubmatch(`RESOLUTION=\d+x(\d+)`): the capture group of the
\* leftmost match (greedy digit runs), or <<>> when there is no match
FindResolution(s) ==
    IF \A p \in 1..Len(s) : ~ResolutionAt(s, p) THEN <<>>
    ELSE LET p  == CHOOSE q \in 1..Len(s) :
                      ResolutionAt(s, q) /\ \A r \in 1..(q-1) : ~ResolutionAt(s, r)
             x  == p + Len(StrResolution) + DigitRun(s, p + Len(StrResolution))
         IN SubSeq(s, x + 1, x + DigitRun(s, x + 1))

DigitVal(c) ==
    CASE c = "0" -> 0 [] c = "1" -> 1 [] c = "2" -> 2 [] c = "3" -> 3 [] c = "4" -> 4
      [] c = "5" -> 5 [] c = "6" -> 6 [] c = "7" -> 7 [] c = "8" -> 8 [] c = "9" -> 9

RECURSIVE DecimalValue(_)
DecimalValue(s) ==
    IF s = <<>> THEN 0
    ELSE DecimalValue(SubSeq(s, 1, Len(s) - 1)) * 10 + DigitVal(s[Len(s)])

\* strconv.Atoi: optional sign, then one or more decimal digits; anything else
\* is an error.  (Labels here have at most four digits, far from int overflow.)
Atoi(s) ==
    LET signed == Len(s) >= 1 /\ s[1] \in {"+", "-"}
        body   == IF signed THEN SubSeq(s, 2, Len(s)) ELSE s
    IN IF body = <<>> \/ \E i \in 1..Len(body) : body[i] \notin Digits
       THEN [err |-> TRUE, val |-> 0]
       ELSE [err |-> FALSE,
             val |-> IF signed /\ s[1] = "-" THEN 0 - DecimalValue(body)
                     ELSE DecimalValue(body)]

\* strings.Join(parts, sep)
RECURSIVE Join(_, _)
Join(parts, sep) ==
    IF parts = <<>> THEN <<>>
    ELSE IF Len(parts) = 1 THEN parts[1]
    ELSE parts[1] \o sep \o Join(Tail(parts), sep)

\* the non-empty elements of a sequence of strings
NonEmpty(parts) == SelectSeq(parts, LAMBDA x : x # <<>>)

\* filepath.Clean on paths without "." or ".." elements: runs of slashes
\* collapse, a trailing slash goes, the empty path is "."
CleanPath(s) ==
    LET segs == Join(NonEmpty(Split(s, "/")), StrSlash)
        out  == IF HasPrefix(s, StrSlash) THEN StrSlash \o segs ELSE segs
    IN IF out = <<>> THEN <<".">> ELSE out

\* filepath.Dir: the cleaned path up to and including the last slash
PathDir(s) == CleanPath(SubSeq(s, 1, LastIndex(s, "/") + 1))

\* filepath.Base: the last element, trailing slashes removed
PathBase(s) ==
    LET segs == NonEmpty(Split(s, "/"))
    IN IF s = <<>> THEN <<".">>
       ELSE IF segs = <<>> THEN StrSlash
       ELSE segs[Len(segs)]

\* all sequences over S of length at most n
SeqsUpTo(S, n) == UNION {[1..k -> S] : k \in 0..n}

\* ------------------------------------------------------- the backend
\* driver.File
DirEntry(name, cid) ==
    [Name |-> name, IsDirectory |-> TRUE, PickCode |-> <<>>, CID |-> cid]
FileEntry(name, pick) ==
    [Name |-> name, IsDirectory |-> FALSE, PickCode |-> pick, CID |-> <<>>]
NoFile == [Name |-> <<>>, IsDirectory |-> FALSE, PickCode |-> <<>>, CID |-> <<>>]

\* the account's directory tree: /a, /a/a and /m are its only directories
SubDirs(cid) ==
    CASE cid = <<"0">> -> <<DirEntry(<<"a">>, <<"1">>), DirEntry(<<"m">>, <<"3">>)>>
      [] cid = <<"1">> -> <<DirEntry(<<"a">>, <<"2">>)>>
      [] OTHER -> <<>>

\* the files a directory may hold: names that differ in case, and one name
\* under two pick codes
FileEntries ==
    { FileEntry(<<"m">>, <<"p","1">>), FileEntry(<<"m">>, <<"p","2">>),
      FileEntry(<<"M">>, <<"p","3">>), FileEntry(<<"m",".","M">>, <<"p","4">>) }

\* what a listing of cid may answer: its subdirectories with up to MaxFiles
\* files, directories first or last
Listings(cid) ==
    UNION { {SubDirs(cid) \o fs, fs \o SubDirs(cid)} : fs \in SeqsUpTo(FileEntries, MaxFiles) }

\* errors: kind is the message main.go formats, cause the wrapped error,
\* detail the name the message carries
Error(kind, cause, detail) == [kind |-> kind, cause |-> cause, detail |-> detail]
NoError == Error("nil", "", <<>>)

\* Path Resolver walk: scan the children of cur for the first directory named
\* like the next segment; the first unmatched segment is the error's detail
RECURSIVE Walk(_, _)
Walk(cur, segs) ==
    IF segs = <<>> THEN [err |-> NoError, cid |-> cur]
    ELSE LET kids == SubDirs(cur)
             hit  == {i \in 1..Len(kids) : kids[i].IsDirectory /\ kids[i].Name = segs[1]}
         IN IF hit = {}
            THEN [err |-> Error("", "PathNotFound", segs[1]), cid |-> <<>>]
            ELSE Walk(kids[CHOOSE i \in hit : \A j \in hit : i <= j].CID, Tail(segs))

\* client.DirName2CID: strip one leading slash, drop empty segments, walk
\* from the root
DirName2CID(path) ==
    LET rest == IF HasPrefix(path, StrSlash) THEN Tail(path) ELSE path
    IN IF rest = <<>> THEN [err |-> NoError, cid |-> StrRootCid]
       ELSE Walk(StrRootCid, NonEmpty(Split(rest, "/")))

\* what DownloadWithUA may answer: an error, an empty URL, a URL
SrcUrl == <<"h","t","t","p",":","/","/","h","/","s">>
DownloadAnswers ==
    { [ok |-> FALSE, url |-> <<>>], [ok |-> TRUE, url |-> <<>>], [ok |-> TRUE, url |-> SrcUrl] }

\* manifest lines
Tag720 == StrStreamInf \o <<":">> \o StrResolution \o <<"1","2","8","0","x","7","2","0">>
Tag1080 == StrStreamInf \o <<":">> \o StrResolution \o <<"1","9","2","0","x","1","0","8","0">>
TagNoRes == StrStreamInf \o <<":","B","W","=","8","0","0">>
UrlA == <<"h","t","t","p",":","/","/","h","/","a">>
UrlB == <<"h","t","t","p",":","/","/","h","/","b">>
UrlFtp == <<"f","t","p",":","/","/","h","/","c">>
BadBody == <<"<","h","t","m","l",">">>

\* a variant of a manifest: a tag line and what follows it
BlockSet ==
    { <<Tag720, UrlA>>,
      <<Tag1080, <<" ">> \o UrlB \o <<"\r">> >>,
      <<TagNoRes, UrlA>>,
      <<Tag720, <<>>, UrlB>>,
      <<Tag1080, UrlFtp>>,
      <<Tag720>> }

RECURSIVE Flatten(_)
Flatten(blocks) == IF blocks = <<>> THEN <<>> ELSE blocks[1] \o Flatten(Tail(blocks))

\* the bodies the manifest URL may answer: a non-playlist page, or the
\* playlist header followed by up to MaxBlocks variants
Bodies ==
    {BadBody} \cup
    { Join(<<StrEXTM3U>> \o Flatten(bs), <<"\n">>) : bs \in SeqsUpTo(BlockSet, MaxBlocks) }

\* -------------------------------------------------- handleGetStreams
StreamInfo(quality, url, isM3U8) == [Quality |-> quality, URL |-> url, IsM3U8 |-> isM3U8]

\* the line taken as the URL of the variant whose tag is lines[i]
VariantUrl(lines, i) == TrimSpace(lines[i + 1])

\* the quality label of a tag line
VariantQuality(line) ==
    IF FindResolution(line) # <<>> THEN FindResolution(line) \o StrP ELSE StrUnknown

\* the loop over the manifest's lines, from line i on
RECURSIVE ParseLines(_, _)
ParseLines(lines, i) ==
    IF i > Len(lines) THEN <<>>
    ELSE (IF /\ HasPrefix(lines[i], StrStreamInf)
             /\ i + 1 <= Len(lines)
             /\ HasPrefix(VariantUrl(lines, i), StrHttp)
          THEN <<StreamInfo(VariantQuality(lines[i]), VariantUrl(lines, i), TRUE)>>
          ELSE <<>>) \o ParseLines(lines, i + 1)

\* the candidates of a manifest answer
ParseManifest(ok, body) ==
    IF ok /\ HasPrefix(body, StrEXTM3U) THEN ParseLines(Split(body, "\n"), 1) ELSE <<>>

\* what the manifest request may answer, each answer with the candidates the
\* handler's loop takes from it: a failed request, or a body
ManifestAnswers ==
    { [ok |-> FALSE, body |-> <<>>, found |-> ParseManifest(FALSE, <<>>)] } \cup
    { [ok |-> TRUE, body |-> b, found |-> ParseManifest(TRUE, b)] : b \in Bodies }

\* the source candidate kept whatever its URL
SourceStreamsAnyUrl(ok, url) ==
    IF ok THEN <<[Quality |-> StrSource, URL |-> url, IsM3U8 |-> FALSE]>> ELSE <<>>

\* the source candidate of a download answer
SourceStreams(ok, url) ==
    IF ok /\ url # <<>> THEN <<StreamInfo(StrSource, url, FALSE)>> ELSE <<>>

\* the comparator with the two "Source" answers exchanged
lessSourceLast(s, i, j) ==
    IF s[i].Quality = StrSource THEN FALSE
    ELSE IF s[j].Quality = StrSource THEN TRUE
    ELSE LET qi == Atoi(TrimSuffix(s[i].Quality, StrP))
             qj == Atoi(TrimSuffix(s[j].Quality, StrP))
         IN IF qi.err \/ qj.err THEN FALSE ELSE qi.val > qj.val

\* the comparator handed to sort.Slice (i, j are 1-based here)
less(s, i, j) ==
    IF s[i].Quality = StrSource THEN TRUE
    ELSE IF s[j].Quality = StrSource THEN FALSE
    ELSE LET qi == Atoi(TrimSuffix(s[i].Quality, StrP))
             qj == Atoi(TrimSuffix(s[j].Quality, StrP))
         IN IF qi.err \/ qj.err THEN FALSE ELSE qi.val > qj.val

Swap(s, i, j) == [s EXCEPT ![i] = s[j], ![j] = s[i]]

\* sort.Slice on at most 12 elements is an insertion sort:
\* for i := 1; i < n; i++ { for j := i; j > 0 && less(j, j-1); j-- { swap } }
RECURSIVE SinkDown(_, _)
SinkDown(s, j) ==
    IF j > 1 /\ less(s, j, j - 1) THEN SinkDown(Swap(s, j, j - 1), j - 1) ELSE s

RECURSIVE InsertionPass(_, _)
InsertionPass(s, i) == IF i > Len(s) THEN s ELSE InsertionPass(SinkDown(s, i), i + 1)

SortSlice(s) == InsertionPass(s, 2)

\* ------------------------------------------------------------ the program
VARIABLES pc, action, path, err, cid, fileName, files, targetFile, streams,
          collected, outputs, exitCode, calls

vars == <<pc, action, path, err, cid, fileName, files, targetFile, streams,
          collected, outputs, exitCode, calls>>

\* the characters of the --path values tried, and the --action values tried
PathChars == {"/", "a", "m"}
Paths == SeqsUpTo(PathChars, MaxPathLen)
ActionNames == {"", "list", "play", "get-streams", "rename"}

\* the JSON object written to standard output
Response(success, kind, error, items, url, strs, dirPath, nameNoExt) ==
    [success |-> success, kind |-> kind, error |-> error, items |-> items, url |-> url,
     streams |-> strs, dir_path |-> dirPath, filename_no_ext |-> nameNoExt]

ErrorResponse(e) == Response(FALSE, "error", e, <<>>, <<>>, <<>>, <<>>, <<>>)

\* a backend call made by this invocation
Call(op, arg, ok, res) == [op |-> op, arg |-> arg, ok |-> ok, res |-> res]

Init ==
    /\ pc = "main"
    /\ action \in ActionNames
    /\ path \in Paths
    /\ err = NoError
    /\ cid = <<>>
    /\ fileName = <<>>
    /\ files = <<>>
    /\ targetFile = NoFile
    /\ streams = <<>>
    /\ collected = <<>>
    /\ outputs = <<>>
    /\ exitCode = -1
    /\ calls = <<>>

\* outputError: write the error response and exit the process with code 1
outputError(e) ==
    /\ outputs' = Append(outputs, ErrorResponse(e))
    /\ exitCode' = 1
    /\ pc' = "exit"

\* main, up to the client: a missing --action is an error
Main ==
    /\ pc = "main"
    /\ IF action = ""
       THEN outputError(Error("ActionRequired", "", <<>>))
       ELSE pc' = "initClient" /\ UNCHANGED <<outputs, exitCode>>
    /\ UNCHANGED <<action, path, err, cid, fileName, files, targetFile, streams,
                   collected, calls>>

\* initClient: the cookies may be missing or unparsable (no backend call), or
\* the login check may fail
InitClient ==
    /\ pc = "initClient"
    /\ \E outcome \in {"cookies", "login", "ok"} :
         /\ calls' = IF outcome = "cookies" THEN calls
                     ELSE Append(calls, Call("LoginCheck", <<>>, outcome = "ok", <<>>))
         /\ IF outcome = "ok"
            THEN pc' = "dispatch" /\ UNCHANGED <<outputs, exitCode>>
            ELSE outputError(Error("InitClientFailed", outcome, <<>>))
    /\ UNCHANGED <<action, path, err, cid, fileName, files, targetFile, streams,
                   collected>>

\* main's switch on the action
Dispatch ==
    /\ pc = "dispatch"
    /\ CASE action = "list" ->
              /\ path' = IF path = <<>> THEN StrSlash ELSE path
              /\ pc' = "handleList"
              /\ UNCHANGED <<outputs, exitCode>>
         [] action \in {"play", "get-streams"} ->
              /\ IF path = <<>>
                 THEN outputError(Error("PathRequired", "", <<>>))
                 ELSE pc' = "resolveFilePickCode" /\ UNCHANGED <<outputs, exitCode>>
              /\ UNCHANGED path
         [] OTHER ->
              /\ outputError(Error("UnknownAction", "", <<>>))
              /\ UNCHANGED path
    /\ UNCHANGED <<action, err, cid, fileName, files, targetFile, streams,
                   collected, calls>>

\* what a DirName2CID call may answer: the resolver's result, or a failed request
ResolveAnswers(p) == {DirName2CID(p), [err |-> Error("", "backend", <<>>), cid |-> <<>>]}

\* handleList going on whatever the resolution answered
ResolvedOkAlways(e) == TRUE

\* whether handleList goes on to list after a resolution that ended with e
ResolvedOk(e) == e = NoError

\* handleList, first half: the directory id of the path
HandleListResolve ==
    /\ pc = "handleList"
    /\ IF path = StrSlash \/ path = <<>>
       THEN /\ cid' = StrRootCid
            /\ pc' = "listFiles"
            /\ UNCHANGED <<err, calls>>
       ELSE \E r \in ResolveAnswers(path) :
              /\ calls' = Append(calls, Call("DirName2CID", path, r.err = NoError, r.cid))
              /\ IF ResolvedOk(r.err)
                 THEN cid' = r.cid /\ pc' = "listFiles" /\ UNCHANGED err
                 ELSE /\ err' = Error("ResolvePathFailed", r.err.cause, r.err.detail)
                      /\ pc' = "mainReturn"
                      /\ UNCHANGED cid
    /\ UNCHANGED <<action, path, fileName, files, targetFile, streams, collected,
                   outputs, exitCode>>

\* getFilesSortedByName: the directory id sent to the listing endpoint
ListCid(dirID) == IF dirID = <<>> THEN StrRootCid ELSE dirID

\* the FileItem of a listed file
FileItem(file) ==
    LET lastDot == LastIndex(file.Name, ".")
    IN IF file.IsDirectory
       THEN [name |-> file.Name \o StrSlash, type |-> "dir", extension |-> <<>>,
             name_no_ext |-> <<>>]
       ELSE IF lastDot # -1
       THEN [name |-> file.Name, type |-> "file",
             extension |-> ToLower(SubSeq(file.Name, lastDot + 2, Len(file.Name))),
             name_no_ext |-> SubSeq(file.Name, 1, lastDot)]
       ELSE [name |-> file.Name, type |-> "file", extension |-> <<>>,
             name_no_ext |-> file.Name]

\* handleList, second half: list the directory and write the items
HandleListFiles ==
    /\ pc = "listFiles"
    /\ \E ok \in BOOLEAN :
         /\ calls' = Append(calls, Call("FileList", ListCid(cid), ok, <<>>))
         /\ IF ok
            THEN \E listed \in Listings(ListCid(cid)) :
                   /\ outputs' = Append(outputs,
                          Response(TRUE, "list", NoError,
                                   [i \in 1..Len(listed) |-> FileItem(listed[i])],
                                   <<>>, <<>>, <<>>, <<>>))
                   /\ UNCHANGED err
            ELSE /\ err' = Error("ListFailed", "backend", <<>>)
                 /\ UNCHANGED outputs
    /\ pc' = "mainReturn"
    /\ UNCHANGED <<action, path, cid, fileName, files, targetFile, streams, collected,
                   exitCode>>

\* the directory part without the default for an empty one
DirPathOfNoDefault(filePath) == SubSeq(filePath, 1, LastIndex(filePath, "/"))

\* resolveFilePickCode, the split: the directory part of a file path ("/" when
\* it is empty) and the file name after the last slash
DirPathOf(filePath) ==
    LET dirPath == SubSeq(filePath, 1, LastIndex(filePath, "/"))
    IN IF dirPath = <<>> THEN StrSlash ELSE dirPath

FileNameOf(filePath) == SubSeq(filePath, LastIndex(filePath, "/") + 2, Len(filePath))

\* no path rejected
InvalidPathNever(filePath) == FALSE

\* whether resolveFilePickCode rejects the path before any backend call
InvalidPath(filePath) == LastIndex(filePath, "/") = -1

\* resolveFilePickCode, first half: split the path, resolve its directory
ResolveDir ==
    /\ pc = "resolveFilePickCode"
    /\ IF InvalidPath(path)
       THEN /\ err' = Error("InvalidPath", "", <<>>)
            /\ pc' = "mainReturn"
            /\ UNCHANGED <<cid, fileName, calls>>
       ELSE /\ fileName' = FileNameOf(path)
            /\ IF DirPathOf(path) = StrSlash
               THEN /\ cid' = StrRootCid
                    /\ pc' = "locateFile"
                    /\ UNCHANGED <<err, calls>>
               ELSE \E r \in ResolveAnswers(DirPathOf(path)) :
                      /\ calls' = Append(calls,
                             Call("DirName2CID", DirPathOf(path), r.err = NoError, r.cid))
                      /\ IF r.err = NoError
                         THEN cid' = r.cid /\ pc' = "locateFile" /\ UNCHANGED err
                         ELSE /\ err' = Error("ResolveDirFailed", r.err.cause, r.err.detail)
                              /\ pc' = "mainReturn"
                              /\ UNCHANGED cid
    /\ UNCHANGED <<action, path, files, targetFile, streams, collected, outputs,
                   exitCode>>

\* resolveFilePickCode, the listing of the resolved directory
LocateFile ==
    /\ pc = "locateFile"
    /\ \E ok \in BOOLEAN :
         /\ calls' = Append(calls, Call("FileList", ListCid(cid), ok, <<>>))
         /\ IF ok
            THEN /\ files' \in Listings(ListCid(cid))
                 /\ pc' = "scanFiles"
                 /\ UNCHANGED err
            ELSE /\ err' = Error("DirContentFailed", "backend", <<>>)
                 /\ pc' = "mainReturn"
                 /\ UNCHANGED files
    /\ UNCHANGED <<action, path, cid, fileName, targetFile, streams, collected, outputs,
                   exitCode>>

\* a match by name alone
MatchesAnyKind(file, name) == file.Name = name

\* whether a listed entry is the file looked for
Matches(file, name) == ~file.IsDirectory /\ file.Name = name

\* the scan of the listing: the first matching entry, if any
FindFile(listed, name) ==
    LET hit == {i \in 1..Len(listed) : Matches(listed[i], name)}
    IN IF hit = {} THEN [found |-> FALSE, file |-> NoFile]
       ELSE [found |-> TRUE, file |-> listed[CHOOSE i \in hit : \A j \in hit : i <= j]]

\* resolveFilePickCode, the scan and the return to the handler, which goes on
\* to its download request; the listing is local to resolveFilePickCode
ScanFiles ==
    /\ pc = "scanFiles"
    /\ IF FindFile(files, fileName).found
       THEN /\ targetFile' = FindFile(files, fileName).file
            /\ pc' = IF action = "play" THEN "handlePlay" ELSE "handleGetStreams"
            /\ UNCHANGED err
       ELSE /\ err' = Error("FileNotFound", "", fileName)
            /\ pc' = "mainReturn"
            /\ UNCHANGED targetFile
    /\ files' = <<>>
    /\ UNCHANGED <<action, path, cid, fileName, streams, collected, outputs, exitCode,
                   calls>>

\* handlePlay after the lookup: request the download link, write its URL
HandlePlay ==
    /\ pc = "handlePlay"
    /\ \E d \in DownloadAnswers :
         /\ calls' = Append(calls, Call("DownloadWithUA", targetFile.PickCode, d.ok, d.url))
         /\ IF d.ok
            THEN /\ outputs' = Append(outputs,
                        Response(TRUE, "play", NoError, <<>>, d.url, <<>>, <<>>, <<>>))
                 /\ UNCHANGED err
            ELSE /\ err' = Error("DownloadFailed", "backend", <<>>)
                 /\ UNCHANGED outputs
    /\ pc' = "mainReturn"
    /\ UNCHANGED <<action, path, cid, fileName, files, targetFile, streams, collected,
                   exitCode>>

\* step 1 giving up on a failed download request, as handlePlay does
StreamsDownloadAbort ==
    /\ pc = "handleGetStreams"
    /\ \E d \in DownloadAnswers :
         /\ calls' = Append(calls, Call("DownloadWithUA", targetFile.PickCode, d.ok, d.url))
         /\ IF d.ok
            THEN /\ streams' = IF d.url # <<>>
                               THEN <<[Quality |-> StrSource, URL |-> d.url, IsM3U8 |-> FALSE]>>
                               ELSE <<>>
                 /\ pc' = "fetchManifest"
                 /\ UNCHANGED err
            ELSE /\ err' = Error("DownloadFailed", "backend", <<>>)
                 /\ pc' = "mainReturn"
                 /\ UNCHANGED streams
    /\ UNCHANGED <<action, path, cid, fileName, files, targetFile, collected, outputs,
                   exitCode>>

\* handleGetStreams, step 1: the source link, kept when it has a URL
StreamsDownload ==
    /\ pc = "handleGetStreams"
    /\ \E d \in DownloadAnswers :
         /\ calls' = Append(calls, Call("DownloadWithUA", targetFile.PickCode, d.ok, d.url))
         /\ streams' = SourceStreams(d.ok, d.url)
    /\ pc' = "fetchManifest"
    /\ UNCHANGED <<action, path, err, cid, fileName, files, targetFile, collected,
                   outputs, exitCode>>

\* the file name without its extension
NameNoExt(name) ==
    IF LastIndex(name, ".") # -1 THEN SubSeq(name, 1, LastIndex(name, ".")) ELSE name

\* the streams as ranked for the response
Ranked(s) == SortSlice(s)

\* handleGetStreams, steps 2 and 3: fetch and parse the manifest, fail when no
\* stream was collected, rank the streams and write them
StreamsManifest ==
    /\ pc = "fetchManifest"
    /\ \E m \in ManifestAnswers :
         LET all == streams \o m.found
         IN /\ calls' = Append(calls, Call("GetM3U8", targetFile.PickCode, m.ok, m.body))
            /\ collected' = all
            /\ IF Len(all) = 0
               THEN /\ err' = Error("NoStreams", "", <<>>)
                    /\ UNCHANGED <<streams, outputs>>
               ELSE /\ streams' = Ranked(all)
                    /\ outputs' = Append(outputs,
                           Response(TRUE, "streams", NoError, <<>>, <<>>, Ranked(all),
                                    PathDir(path), NameNoExt(PathBase(path))))
                    /\ UNCHANGED err
    /\ pc' = "mainReturn"
    /\ UNCHANGED <<action, path, cid, fileName, files, targetFile, exitCode>>

\* the end of main without the report of the handler's error
MainReturnSilent ==
    /\ pc = "mainReturn"
    /\ pc' = "exit"
    /\ exitCode' = 0
    /\ UNCHANGED <<action, path, err, cid, fileName, files, targetFile, streams,
                   collected, outputs, calls>>

\* the end of main: a handler's error is written by outputError, otherwise
\* the process ends with code 0
MainReturn ==
    /\ pc = "mainReturn"
    /\ IF err # NoError
       THEN outputError(err)
       ELSE pc' = "exit" /\ exitCode' = 0 /\ UNCHANGED outputs
    /\ UNCHANGED <<action, path, err, cid, fileName, files, targetFile, streams,
                   collected, calls>>

Next ==
    \/ Main
    \/ InitClient
    \/ Dispatch
    \/ HandleListResolve
    \/ HandleListFiles
    \/ ResolveDir
    \/ LocateFile
    \/ ScanFiles
    \/ HandlePlay
    \/ StreamsDownload
    \/ StreamsManifest
    \/ MainReturn

Spec == Init /\ [][Next]_vars

\* ------------------------------------------------------------- properties
\* the invocation has ended
Exited == pc = "exit"

\* the calls of this invocation to one backend operation
CallsOf(op) == {i \in 1..Len(calls) : calls[i].op = op}

\* the client was initialised: the login check was made and passed
LoggedIn == Len(calls) >= 1 /\ calls[1].op = "LoginCheck" /\ calls[1].ok

\* a quality label of the form <digits>p, and its number
IsNumericLabel(q) ==
    Len(q) >= 2 /\ q[Len(q)] = "p" /\ \A i \in 1..(Len(q) - 1) : q[i] \in Digits
LabelNumber(q) == DecimalValue(SubSeq(q, 1, Len(q) - 1))

\* the successful get-streams responses written so far
StreamResponses == {k \in 1..Len(outputs) : outputs[k].success /\ outputs[k].kind = "streams"}

\* C1: in the ranked stream list of a successful get-streams, any two
\* candidates with labels of the form <number>p are in descending numeric
\* order, whatever lies between them
C1_NumericDescending ==
    \A k \in StreamResponses :
      LET r == outputs[k].streams
      IN \A i \in 1..Len(r) : \A j \in (i+1)..Len(r) :
           (IsNumericLabel(r[i].Quality) /\ IsNumericLabel(r[j].Quality))
             => LabelNumber(r[i].Quality) >= LabelNumber(r[j].Quality)

\* the download request of get-streams returned a non-empty URL
SourceObtained ==
    /\ action = "get-streams"
    /\ \E i \in CallsOf("DownloadWithUA") : calls[i].ok /\ calls[i].res # <<>>

\* C2: when the source link was obtained with a non-empty URL, get-streams
\* succeeds and the Source candidate, with that URL, is the first element of
\* the ranked list
C2_SourceFirst ==
    (Exited /\ SourceObtained) =>
      /\ Len(outputs) = 1
      /\ outputs[1].success
      /\ outputs[1].kind = "streams"
      /\ outputs[1].streams[1].Quality = StrSource
      /\ ~outputs[1].streams[1].IsM3U8
      /\ \E i \in CallsOf("DownloadWithUA") : outputs[1].streams[1].URL = calls[i].res

\* a ranked list with the Source candidate and three adaptive variants was returned
C2_Witness ==
    /\ Exited /\ SourceObtained
    /\ Len(outputs) = 1
    /\ Len(outputs[1].streams) = 4
    /\ \E i \in 2..4 : IsNumericLabel(outputs[1].streams[i].Quality)

\* get-streams reached the collection of streams: its download request was made
Collecting == action = "get-streams" /\ CallsOf("DownloadWithUA") # {}

\* the error of the one response written, NoError for a success
ReportedError == IF Len(outputs) = 1 THEN outputs[1].error ELSE NoError

\* C3: the manifest is requested whether or not the download request
\* succeeded; get-streams fails with the no-streams error exactly when no
\* candidate was collected; a failed manifest request after a source link
\* with a URL gives a success with the Source candidate alone
C3_BestEffort ==
    (Exited /\ Collecting) =>
      /\ Cardinality(CallsOf("GetM3U8")) = 1
      /\ Len(outputs) = 1
      /\ (ReportedError.kind = "NoStreams") <=> (Len(collected) = 0)
      /\ outputs[1].success <=> (Len(collected) > 0)
      /\ (SourceObtained /\ \A i \in CallsOf("GetM3U8") : ~calls[i].ok) =>
           /\ outputs[1].success
           /\ Len(outputs[1].streams) = 1
           /\ outputs[1].streams[1].Quality = StrSource

\* the manifest request failed after a source link with a URL
C3_Witness ==
    /\ Exited /\ SourceObtained
    /\ \E i \in CallsOf("GetM3U8") : ~calls[i].ok

\* a file path for play or get-streams that is not empty and has no slash
BareName ==
    /\ action \in {"play", "get-streams"}
    /\ path # <<>>
    /\ \A i \in 1..Len(path) : path[i] # "/"

\* C4: a file lookup on a path without a slash makes no path resolution, no
\* listing, no download and no manifest request, and once the client is
\* initialised it ends with the invalid-path error
C4_BareNameRejected ==
    BareName =>
      /\ \A i \in 1..Len(calls) : calls[i].op = "LoginCheck"
      /\ (Exited /\ LoggedIn) =>
           /\ outputs = <<ErrorResponse(Error("InvalidPath", "", <<>>))>>
           /\ exitCode = 1

\* a bare name was rejected
C4_Witness == BareName /\ Exited /\ LoggedIn /\ exitCode = 1

\* the segments of a path: one leading slash stripped, empty segments dropped
Segments(p) ==
    LET rest == IF Len(p) >= 1 /\ p[1] = "/" THEN SubSeq(p, 2, Len(p)) ELSE p
    IN SelectSeq(Split(rest, "/"), LAMBDA x : Len(x) > 0)

\* the directories of the account, as segment sequences
DirPaths == { <<>>, << <<"a">> >>, << <<"a">>, <<"a">> >>, << <<"m">> >> }

\* the index of the first segment of segs that names no directory
FirstMissing(segs) ==
    CHOOSE k \in 1..Len(segs) :
      /\ SubSeq(segs, 1, k) \notin DirPaths
      /\ \A h \in 1..(k-1) : SubSeq(segs, 1, h) \in DirPaths

\* the path handed to the resolver names no directory
Unresolvable(i) == calls[i].op = "DirName2CID" /\ Segments(calls[i].arg) \notin DirPaths

\* C5: resolving a path with a segment that is no subdirectory fails; the
\* response is the error response, a path-not-found error names the first
\* unmatched segment, and no directory is listed
C5_FirstUnmatchedSegment ==
    \A i \in 1..Len(calls) :
      Unresolvable(i) =>
        /\ ~calls[i].ok
        /\ CallsOf("FileList") = {}
        /\ \A k \in 1..Len(outputs) : ~outputs[k].success /\ outputs[k].items = <<>>
        /\ err.kind \in {"ResolvePathFailed", "ResolveDirFailed"}
        /\ err.cause \in {"PathNotFound", "backend"}
        /\ err.cause = "PathNotFound" =>
             err.detail = Segments(calls[i].arg)[FirstMissing(Segments(calls[i].arg))]
        /\ Exited => (outputs = <<ErrorResponse(err)>> /\ exitCode = 1)

\* a path of three segments whose middle one is the first unmatched was
\* resolved and reported
C5_Witness ==
    /\ Exited
    /\ \E i \in 1..Len(calls) :
         /\ Unresolvable(i)
         /\ Len(Segments(calls[i].arg)) = 3
         /\ FirstMissing(Segments(calls[i].arg)) = 2
         /\ Segments(calls[i].arg)[2] # Segments(calls[i].arg)[3]
    /\ err.cause = "PathNotFound"

\* a list of the empty path or of "/", or a file lookup whose directory part
\* is empty or "/"
RootPath ==
    \/ action = "list" /\ path \in {<<>>, StrSlash}
    \/ /\ action \in {"play", "get-streams"}
       /\ \E k \in 1..2 :
            /\ Len(path) >= k
            /\ \A i \in 1..k : path[i] = "/"
            /\ \A i \in (k+1)..Len(path) : path[i] # "/"

\* C6: the empty path and "/" are the root: the list action and the file
\* lookup list directory "0" and never ask the backend to resolve a path
C6_RootSentinel ==
    RootPath =>
      /\ CallsOf("DirName2CID") = {}
      /\ \A i \in CallsOf("FileList") : calls[i].arg = <<"0">>
      /\ (Exited /\ LoggedIn) => (Len(calls) >= 2 /\ calls[2].op = "FileList")

\* a file directly under the root was looked up and found
C6_Witness ==
    /\ RootPath
    /\ action = "get-streams"
    /\ Exited
    /\ Len(outputs) = 1 /\ outputs[1].success
    /\ Len(path) = 2

\* an error response was written
ErrorWritten == \E k \in 1..Len(outputs) : ~outputs[k].success

\* how far the invocation has come
Rank(p) ==
    CASE p = "main" -> 0
      [] p = "initClient" -> 1
      [] p = "dispatch" -> 2
      [] p \in {"handleList", "resolveFilePickCode"} -> 3
      [] p \in {"listFiles", "locateFile"} -> 4
      [] p = "scanFiles" -> 5
      [] p \in {"handlePlay", "handleGetStreams"} -> 6
      [] p = "fetchManifest" -> 7
      [] p = "mainReturn" -> 8
      [] p = "exit" -> 9

\* at most one response; the invocation can go on until its exit, and at the
\* exit there is exactly one response, a success with code 0 or an error with
\* a message and code 1; an error response ends the invocation; no operation
\* is called again after it failed
C7_State ==
    /\ Len(outputs) <= 1
    /\ Exited \/ ENABLED Next
    /\ (exitCode # -1) <=> Exited
    /\ Exited =>
         /\ Len(outputs) = 1
         /\ \/ outputs[1].success /\ outputs[1].error = NoError /\ exitCode = 0
            \/ ~outputs[1].success /\ outputs[1].error.kind \notin {"nil", ""} /\ exitCode = 1
    /\ ErrorWritten => Exited
    /\ \A i \in 1..Len(calls) : \A j \in (i+1)..Len(calls) :
         ~calls[i].ok => calls[j].op # calls[i].op

\* every step brings the invocation nearer to its exit; after an error
\* response no response is written and no call is made
C7_Step ==
    /\ Rank(pc') > Rank(pc)
    /\ ErrorWritten => (outputs' = outputs /\ calls' = calls)

\* C7: every invocation writes exactly one response, a success with exit
\* code 0 or an error with a message and exit code 1; nothing follows an
\* error response, and no failed backend call is retried
C7_OneResponse == []C7_State /\ [][C7_Step]_vars

\* an invocation ended with the error of a failed listing
C7_Witness ==
    /\ Exited
    /\ exitCode = 1
    /\ \E i \in CallsOf("FileList") : ~calls[i].ok
    /\ Len(outputs) = 1 /\ ~outputs[1].success

\* the tag lines of a manifest whose next non-empty line starts with http,
\* each with the position of that line
VariantsOf(lines) ==
    { t \in (1..Len(lines)) \X (1..Len(lines)) :
        /\ HasPrefix(lines[t[1]], StrStreamInf)
        /\ t[2] > t[1]
        /\ lines[t[2]] # <<>>
        /\ \A v \in (t[1]+1)..(t[2]-1) : lines[v] = <<>>
        /\ HasPrefix(TrimSpace(lines[t[2]]), StrHttp) }

\* C8: for every line of a fetched manifest that begins with the stream-info
\* tag, the next non-empty line, when it starts with http, is the URL of a
\* collected adaptive candidate
C8_NextNonEmptyLine ==
    \A i \in CallsOf("GetM3U8") :
      (calls[i].ok /\ HasPrefix(calls[i].res, StrEXTM3U)) =>
        \A t \in VariantsOf(Split(calls[i].res, "\n")) :
          \E k \in 1..Len(collected) :
            /\ collected[k].IsM3U8
            /\ collected[k].URL = TrimSpace(Split(calls[i].res, "\n")[t[2]])

\* the name after the last slash of the file path
TargetName ==
    LET slashes == {i \in 1..Len(path) : path[i] = "/"}
        last    == CHOOSE i \in slashes : \A j \in slashes : j <= i
    IN IF slashes = {} THEN path ELSE SubSeq(path, last + 1, Len(path))

\* the entries of the listing that are files named like the target
Candidates == {i \in 1..Len(files) : ~files[i].IsDirectory /\ files[i].Name = TargetName}

\* the scan returns the first candidate, or fails with file-not-found
C9_Step ==
    (pc = "scanFiles") =>
      IF Candidates = {}
      THEN err'.kind = "FileNotFound" /\ targetFile' = NoFile /\ pc' = "mainReturn"
      ELSE /\ \E i \in Candidates : (\A j \in Candidates : i <= j) /\ targetFile' = files[i]
           /\ err' = NoError

\* no directory is returned, and after file-not-found no download-link or
\* manifest request is made and the error is the response
C9_State ==
    /\ ~targetFile.IsDirectory
    /\ (err.kind = "FileNotFound") =>
         /\ CallsOf("DownloadWithUA") = {}
         /\ CallsOf("GetM3U8") = {}
         /\ Exited => outputs = <<ErrorResponse(err)>>

\* C9: the file lookup returns the first entry of the listing that is a file
\* with exactly the target name, never a directory; without one it fails
\* with file-not-found and requests neither download link nor manifest
C9_FirstFileMatch == []C9_State /\ [][C9_Step]_vars

\* a file of the root was returned although the root has a directory of the
\* same name
C9_Witness ==
    /\ pc = "handlePlay"
    /\ cid = <<"0">>
    /\ targetFile.Name = <<"m">>
    /\ targetFile.PickCode = <<"p", "2">>

\* how often x occurs in the sequence s
Count(s, x) == Cardinality({i \in 1..Len(s) : s[i] = x})

\* C10: every candidate of a successful get-streams response has a URL, is
\* adaptive exactly when it is not the Source one, adaptive ones have an http
\* URL and a quality of Unknown or <digits>p, there is at most one Source
\* candidate, and the ranked list is a permutation of the collected one
C10_Candidates ==
    \A k \in StreamResponses :
      LET r == outputs[k].streams
      IN /\ \A i \in 1..Len(r) :
              /\ r[i].URL # <<>>
              /\ (~r[i].IsM3U8) <=> (r[i].Quality = StrSource)
              /\ r[i].IsM3U8 =>
                   /\ HasPrefix(r[i].URL, StrHttp)
                   /\ (r[i].Quality = StrUnknown \/ IsNumericLabel(r[i].Quality))
         /\ Cardinality({i \in 1..Len(r) : r[i].Quality = StrSource}) <= 1
         /\ Len(r) = Len(collected)
         /\ \A i \in 1..Len(r) : Count(r, r[i]) = Count(collected, r[i])

\* a response with the Source candidate, an Unknown one and a numeric one
C10_Witness ==
    /\ Exited
    /\ \E k \in StreamResponses :
         LET r == outputs[k].streams
         IN /\ r[1].Quality = StrSource
            /\ \E i \in 1..Len(r) : r[i].Quality = StrUnknown
            /\ \E i \in 1..Len(r) : IsNumericLabel(r[i].Quality)
            /\ r # collected

====
